---- MODULE Spec2Model ----
(***************************************************************************)
(* PyShopList: a single-table SQLite store (class ShoppingList) and the    *)
(* Tk presenter on top of it (class ShoppingListGUI).                      *)
(*                                                                         *)
(* Text is modelled as a sequence of one-character strings, so that the    *)
(* row formatting of update_list and the parsing done by delete_item and   *)
(* toggle_purchase are computed character by character.  An Optional value *)
(* is a sequence of length at most one: <<>> is None / SQL NULL.           *)
(***************************************************************************)
EXTENDS Integers, Sequences, FiniteSets, TLC

VARIABLES
    items,              \* rows of table "items", in rowid order
    sqlite_sequence,    \* AUTOINCREMENT counter of table "items"
    call,               \* the last ShoppingList call: operation, arguments, outcome
    held,               \* history: every id some row has carried so far
    show_all_items,     \* ShoppingListGUI.show_all_items
    listbox,            \* rows of the two Listbox widgets, by frame
    selection,          \* curselection() of the listbox on screen (0: none)
    description_entry,  \* contents of the three Entry widgets
    quantity_entry,
    barcode_entry,
    event               \* the last GUI callback: name, error box shown, exception that left it

vars == <<items, sqlite_sequence, call, held, show_all_items, listbox, selection,
          description_entry, quantity_entry, barcode_entry, event>>

storeVars == <<items, sqlite_sequence, call, held>>
guiVars == <<show_all_items, listbox, selection, description_entry, quantity_entry,
             barcode_entry, event>>

\* Largest rowid the model lets the table hand out or be given.
MaxId == 3

\* Field widths of the row format string.
ID_WIDTH == 2
QTY_WIDTH == 8
DESC_WIDTH == 20

None == <<>>
Some(v) == <<v>>

Max(a, b) == IF a >= b THEN a ELSE b

Range(s) == {s[i] : i \in 1..Len(s)}

(***************************************************************************)
(* Text                                                                    *)
(***************************************************************************)
DigitChars == <<"0", "1", "2", "3", "4", "5", "6", "7", "8", "9">>

IsDigit(c) == \E d \in 1..10 : DigitChars[d] = c

DigitValue(c) == (CHOOSE d \in 1..10 : DigitChars[d] = c) - 1

IsSpace(c) == c = " "

RECURSIVE NatStr(_)
NatStr(n) == IF n < 10 THEN <<DigitChars[n + 1]>>
             ELSE NatStr(n \div 10) \o <<DigitChars[(n % 10) + 1]>>

\* str(n) for an int
IntStr(n) == IF n < 0 THEN <<"-">> \o NatStr(-n) ELSE NatStr(n)

RECURSIVE Spaces(_)
Spaces(n) == IF n <= 0 THEN <<>> ELSE <<" ">> \o Spaces(n - 1)

\* format(n, "w"): a number is right-aligned in a field of at least w characters
FormatInt(n, w) == LET s == IntStr(n) IN Spaces(w - Len(s)) \o s

\* format(s, "<w"): left-aligned, padded to at least w characters, never cut
FormatLeft(s, w) == s \o Spaces(w - Len(s))

Sep == <<" ", "|", " ">>

ToPurchaseText == <<"T", "o", " ", "P", "u", "r", "c", "h", "a", "s", "e">>
NotToPurchaseText == <<"N", "o", "t", " ", "t", "o", " ">>
                       \o <<"P", "u", "r", "c", "h", "a", "s", "e">>

\* s.split(':')[0]
SplitColonFirst(s) ==
    IF \E i \in 1..Len(s) : s[i] = ":"
    THEN LET k == CHOOSE i \in 1..Len(s) : s[i] = ":" /\ \A j \in 1..(i - 1) : s[j] # ":"
         IN SubSeq(s, 1, k - 1)
    ELSE s

RECURSIVE LStrip(_)
LStrip(s) == IF s # <<>> /\ IsSpace(Head(s)) THEN LStrip(Tail(s)) ELSE s

RECURSIVE RStrip(_)
RStrip(s) == IF s # <<>> /\ IsSpace(s[Len(s)]) THEN RStrip(SubSeq(s, 1, Len(s) - 1)) ELSE s

RECURSIVE DigitsValue(_)
DigitsValue(s) == IF s = <<>> THEN 0
                  ELSE 10 * DigitsValue(SubSeq(s, 1, Len(s) - 1)) + DigitValue(s[Len(s)])

\* int(s): surrounding blanks are dropped, one sign is allowed, the rest must be
\* decimal digits; anything else raises ValueError (ok = FALSE).
PyInt(s) ==
    LET t == RStrip(LStrip(s))
        signed == t # <<>> /\ (Head(t) = "-" \/ Head(t) = "+")
        d == IF signed THEN Tail(t) ELSE t
    IN IF d # <<>> /\ \A i \in 1..Len(d) : IsDigit(d[i])
       THEN [ok |-> TRUE,
             val |-> IF signed /\ Head(t) = "-" THEN -DigitsValue(d) ELSE DigitsValue(d)]
       ELSE [ok |-> FALSE, val |-> 0]

(***************************************************************************)
(* ShoppingList: the store                                                 *)
(***************************************************************************)
Columns == {"id", "quantity", "description", "barcode", "last_price", "to_purchase"}

Ids(tbl) == {tbl[i].id : i \in 1..Len(tbl)}

RECURSIVE SetMax(_)
SetMax(S) == IF S = {} THEN 0
             ELSE LET x == CHOOSE y \in S : TRUE IN Max(x, SetMax(S \ {x}))

\* rows of a table come back in rowid order
RECURSIVE SortById(_)
SortById(S) ==
    IF S = {} THEN <<>>
    ELSE LET r == CHOOSE x \in S : \A y \in S : x.id <= y.id
         IN <<r>> \o SortById(S \ {r})

\* sqlite3 stores a Python bool as the integer 1 or 0
AdaptBool(b) == IF b THEN 1 ELSE 0

\* item.barcode or None
OrNone(barcode) == IF barcode = None \/ barcode = Some("") THEN None ELSE barcode

BarcodeTaken_NotUnique(tbl, barcode) == FALSE

\* barcode TEXT UNIQUE: NULLs never collide, any other value may occur once
BarcodeTaken(tbl, barcode) ==
    barcode # None /\ \E i \in 1..Len(tbl) : tbl[i].barcode = barcode

\* INTEGER PRIMARY KEY AUTOINCREMENT: one more than the largest rowid the table
\* holds or the sequence remembers
NewRowid(db) == Max(db.seq, SetMax(Ids(db.items))) + 1

ShoppingList_add_item(db, item) ==
    LET barcode == OrNone(item.barcode) IN
    IF BarcodeTaken(db.items, barcode)
    THEN [db |-> db, exc |-> "IntegrityError", ret |-> 0]
    ELSE LET id == NewRowid(db)
             row == [id |-> id, quantity |-> item.quantity,
                     description |-> item.description, barcode |-> barcode,
                     last_price |-> item.last_price,
                     to_purchase |-> AdaptBool(item.to_purchase)]
         IN [db |-> [items |-> Append(db.items, row), seq |-> id],
             exc |-> "none", ret |-> id]

get_all_items(tbl) == tbl

get_item_by_id(tbl, item_id) ==
    IF item_id \in Ids(tbl)
    THEN Some(tbl[CHOOSE i \in 1..Len(tbl) : tbl[i].id = item_id])
    ELSE None

\* the value bound to column key of an UPDATE
Bound(kwargs, key) == IF key = "to_purchase" THEN AdaptBool(kwargs[key]) ELSE kwargs[key]

ShoppingList_update_item(db, item_id, kwargs) ==
    IF DOMAIN kwargs = {} \/ ~(DOMAIN kwargs \subseteq Columns)
    THEN [db |-> db, exc |-> "OperationalError"]
    ELSE IF item_id \notin Ids(db.items)
    THEN [db |-> db, exc |-> "none"]
    ELSE LET old == get_item_by_id(db.items, item_id)[1]
             others == Range(db.items) \ {old}
             Set(c) == IF c \in DOMAIN kwargs THEN Bound(kwargs, c) ELSE old[c]
             new == [id |-> Set("id"), quantity |-> Set("quantity"),
                     description |-> Set("description"), barcode |-> Set("barcode"),
                     last_price |-> Set("last_price"), to_purchase |-> Set("to_purchase")]
         IN IF (\E r \in others : r.id = new.id)
               \/ (new.barcode # None /\ \E r \in others : r.barcode = new.barcode)
            THEN [db |-> db, exc |-> "IntegrityError"]
            ELSE [db |-> [items |-> SortById(others \cup {new}), seq |-> db.seq],
                  exc |-> "none"]

ShoppingList_delete_item_KeepsRow(db, item_id) == db

ShoppingList_delete_item(db, item_id) ==
    [items |-> SelectSeq(db.items, LAMBDA r : r.id # item_id), seq |-> db.seq]

get_items_to_purchase_Unfiltered(tbl) == tbl

get_items_to_purchase(tbl) == SelectSeq(tbl, LAMBDA r : r.to_purchase = 1)

DB == [items |-> items, seq |-> sqlite_sequence]

(***************************************************************************)
(* The store driven directly through its methods                           *)
(***************************************************************************)
Milk == <<"M", "i", "l", "k">>

\* Item(None, quantity, description, barcode, last_price, to_purchase)
NewItems == [id : {None}, quantity : {2}, description : {Milk},
             barcode : {None, Some(""), Some("b1")}, last_price : {None},
             to_purchase : BOOLEAN]

\* keyword arguments of update_item
Kwargs == <<[to_purchase |-> TRUE], [to_purchase |-> FALSE], [barcode |-> Some("b1")],
            [barcode |-> None, to_purchase |-> TRUE], [price |-> 1], <<>>>>

IdKwargs == [id : 1..MaxId]

NoItem == <<>>
NoKwargs == <<>>

Init ==
    /\ items = <<>>
    /\ sqlite_sequence = 0
    /\ call = [op |-> "connect", item |-> NoItem, item_id |-> 0, kwargs |-> NoKwargs,
               exc |-> "none", ret |-> 0]
    /\ held = {}
    /\ show_all_items = FALSE
    /\ listbox = [f \in {"all_items_frame", "to_purchase_frame"} |-> <<>>]
    /\ selection = 0
    /\ description_entry = <<>>
    /\ quantity_entry = <<>>
    /\ barcode_entry = ""
    /\ event = [op |-> "none", messagebox |-> "none", exc |-> "none"]

AddItem ==
    \E item \in NewItems :
        LET r == ShoppingList_add_item(DB, item) IN
        /\ r.ret <= MaxId
        /\ items' = r.db.items
        /\ sqlite_sequence' = r.db.seq
        /\ call' = [op |-> "add_item", item |-> item, item_id |-> 0, kwargs |-> NoKwargs,
                    exc |-> r.exc, ret |-> r.ret]
        /\ held' = held \cup Ids(r.db.items)
        /\ UNCHANGED guiVars

Update(item_id, kwargs) ==
    LET r == ShoppingList_update_item(DB, item_id, kwargs) IN
    /\ items' = r.db.items
    /\ sqlite_sequence' = r.db.seq
    /\ call' = [op |-> "update_item", item |-> NoItem, item_id |-> item_id,
                kwargs |-> kwargs, exc |-> r.exc, ret |-> 0]
    /\ held' = held \cup Ids(r.db.items)
    /\ UNCHANGED guiVars

UpdateItem ==
    \E item_id \in 1..MaxId :
        \/ \E k \in 1..Len(Kwargs) : Update(item_id, Kwargs[k])
        \/ \E kwargs \in IdKwargs : Update(item_id, kwargs)

DeleteItem ==
    \E item_id \in 1..MaxId :
        LET db == ShoppingList_delete_item(DB, item_id) IN
        /\ items' = db.items
        /\ sqlite_sequence' = db.seq
        /\ call' = [op |-> "delete_item", item |-> NoItem, item_id |-> item_id,
                    kwargs |-> NoKwargs, exc |-> "none", ret |-> 0]
        /\ held' = held \cup Ids(db.items)
        /\ UNCHANGED guiVars

Next == AddItem \/ UpdateItem \/ DeleteItem

Spec == Init /\ [][Next]_vars

(***************************************************************************)
(* ShoppingListGUI: the presenter                                          *)
(***************************************************************************)
Frames == {"all_items_frame", "to_purchase_frame"}

\* the frame whose listbox the getattr(...) expression picks
CurrentFrame(show_all) == IF show_all THEN "all_items_frame" ELSE "to_purchase_frame"

Truthy(n) == n # 0

StatusText(item) == IF Truthy(item.to_purchase) THEN ToPurchaseText ELSE NotToPurchaseText

\* f"{item.id:2} | {item.quantity:8} | {item.description:<20} | {status}"
RenderRow(item) ==
    FormatInt(item.id, ID_WIDTH) \o Sep \o FormatInt(item.quantity, QTY_WIDTH) \o Sep
        \o FormatLeft(item.description, DESC_WIDTH) \o Sep \o StatusText(item)

\* int(current_listbox.get(selection[0]).split(':')[0])
ParseRowId(row) == PyInt(SplitColonFirst(row))

FetchItems_AlwaysAll(show_all, tbl) == get_all_items(tbl)

\* the query update_list runs for the view on screen
FetchItems(show_all, tbl) ==
    IF show_all THEN get_all_items(tbl) ELSE get_items_to_purchase(tbl)

Rows(its) == [i \in 1..Len(its) |-> RenderRow(its[i])]

\* update_list: the listbox on screen is emptied and filled again
update_list(show_all, tbl, lb) ==
    [lb EXCEPT ![CurrentFrame(show_all)] = Rows(FetchItems(show_all, tbl))]

Required_QuantityOnly(description, quantity) == quantity = <<>>

\* if not description or not quantity
Required(description, quantity) == description = <<>> \/ quantity = <<>>

Shown(e) == [op |-> e, messagebox |-> "none", exc |-> "none"]
ErrorBox(e, text) == [op |-> e, messagebox |-> text, exc |-> "none"]
Raised(e, exc) == [op |-> e, messagebox |-> "none", exc |-> exc]

\* what the user can type into the three entries: description, quantity, barcode
Forms == {<<<<>>, <<"2">>, "">>,
          <<Milk, <<>>, "">>,
          <<Milk, <<"a", "b", "c">>, "">>,
          <<Milk, <<" ", "2">>, "">>,
          <<Milk, <<"2">>, "b1">>,
          <<<<"7", ":">>, <<"2">>, "">>}

\* the database file the GUI opens: new, or left by an earlier use of the store
StoredDBs ==
    {[items |-> <<>>, seq |-> 0],
     [items |-> <<[id |-> 1, quantity |-> 2, description |-> Milk, barcode |-> None,
                   last_price |-> None, to_purchase |-> 0]>>, seq |-> 1]}

InitGUI ==
    \E db \in StoredDBs :
        /\ items = db.items
        /\ sqlite_sequence = db.seq
        /\ call = [op |-> "connect", item |-> NoItem, item_id |-> 0, kwargs |-> NoKwargs,
                   exc |-> "none", ret |-> 0]
        /\ held = Ids(db.items)
        /\ show_all_items = FALSE
        /\ listbox = update_list(FALSE, db.items, [f \in Frames |-> <<>>])
        /\ selection = 0
        /\ description_entry = <<>>
        /\ quantity_entry = <<>>
        /\ barcode_entry = ""
        /\ event = Shown("create_widgets")

show_to_purchase_view ==
    /\ show_all_items' = FALSE
    /\ listbox' = update_list(FALSE, items, listbox)
    /\ selection' = 0
    /\ event' = Shown("show_to_purchase_view")
    /\ UNCHANGED <<storeVars, description_entry, quantity_entry, barcode_entry>>

show_all_items_view ==
    /\ show_all_items' = TRUE
    /\ listbox' = update_list(TRUE, items, listbox)
    /\ selection' = 0
    /\ event' = Shown("show_all_items_view")
    /\ UNCHANGED <<storeVars, description_entry, quantity_entry, barcode_entry>>

\* the user types into the add form, which only the all-items frame holds
EditEntries ==
    /\ show_all_items
    /\ \E form \in Forms :
        /\ description_entry' = form[1]
        /\ quantity_entry' = form[2]
        /\ barcode_entry' = form[3]
    /\ event' = Shown("edit_entries")
    /\ UNCHANGED <<storeVars, show_all_items, listbox, selection>>

\* the user clicks a row of the listbox on screen
SelectRow ==
    /\ \E i \in 1..Len(listbox[CurrentFrame(show_all_items)]) : selection' = i
    /\ event' = Shown("select_row")
    /\ UNCHANGED <<storeVars, show_all_items, listbox, description_entry, quantity_entry,
                   barcode_entry>>

GUI_add_item ==
    /\ show_all_items
    /\ IF Required(description_entry, quantity_entry)
       THEN /\ event' = ErrorBox("add_item", "Description and Quantity are required.")
            /\ UNCHANGED <<storeVars, show_all_items, listbox, selection,
                           description_entry, quantity_entry, barcode_entry>>
       ELSE IF ~PyInt(quantity_entry).ok
       THEN /\ event' = ErrorBox("add_item", "Quantity must be a number.")
            /\ UNCHANGED <<storeVars, show_all_items, listbox, selection,
                           description_entry, quantity_entry, barcode_entry>>
       ELSE LET item == [id |-> None, quantity |-> PyInt(quantity_entry).val,
                         description |-> description_entry,
                         barcode |-> Some(barcode_entry), last_price |-> None,
                         to_purchase |-> TRUE]
                r == ShoppingList_add_item(DB, item)
            IN /\ r.ret <= MaxId
               /\ items' = r.db.items
               /\ sqlite_sequence' = r.db.seq
               /\ held' = held \cup Ids(r.db.items)
               /\ call' = [op |-> "add_item", item |-> item, item_id |-> 0,
                           kwargs |-> NoKwargs, exc |-> r.exc, ret |-> r.ret]
               /\ IF r.exc # "none"
                  THEN /\ event' = Raised("add_item", r.exc)
                       /\ UNCHANGED <<show_all_items, listbox, selection,
                                      description_entry, quantity_entry, barcode_entry>>
                  ELSE /\ event' = Shown("add_item")
                       /\ listbox' = update_list(show_all_items, r.db.items, listbox)
                       /\ selection' = 0
                       /\ description_entry' = <<>>
                       /\ quantity_entry' = <<>>
                       /\ barcode_entry' = ""
                       /\ UNCHANGED show_all_items

GUI_delete_item ==
    IF selection = 0
    THEN /\ event' = ErrorBox("delete_item", "Please select an item to delete.")
         /\ UNCHANGED <<storeVars, show_all_items, listbox, selection,
                        description_entry, quantity_entry, barcode_entry>>
    ELSE LET parsed == ParseRowId(listbox[CurrentFrame(show_all_items)][selection]) IN
         IF ~parsed.ok
         THEN /\ event' = Raised("delete_item", "ValueError")
              /\ UNCHANGED <<storeVars, show_all_items, listbox, selection,
                             description_entry, quantity_entry, barcode_entry>>
         ELSE LET db == ShoppingList_delete_item(DB, parsed.val) IN
              /\ items' = db.items
              /\ sqlite_sequence' = db.seq
              /\ held' = held \cup Ids(db.items)
              /\ call' = [op |-> "delete_item", item |-> NoItem, item_id |-> parsed.val,
                          kwargs |-> NoKwargs, exc |-> "none", ret |-> 0]
              /\ listbox' = update_list(show_all_items, db.items, listbox)
              /\ selection' = 0
              /\ event' = Shown("delete_item")
              /\ UNCHANGED <<show_all_items, description_entry, quantity_entry,
                             barcode_entry>>

GUI_toggle_purchase ==
    IF selection = 0
    THEN /\ event' = ErrorBox("toggle_purchase",
                              "Please select an item to toggle purchase status.")
         /\ UNCHANGED <<storeVars, show_all_items, listbox, selection,
                        description_entry, quantity_entry, barcode_entry>>
    ELSE LET parsed == ParseRowId(listbox[CurrentFrame(show_all_items)][selection])
             item == get_item_by_id(items, parsed.val)
         IN
         IF ~parsed.ok
         THEN /\ event' = Raised("toggle_purchase", "ValueError")
              /\ UNCHANGED <<storeVars, show_all_items, listbox, selection,
                             description_entry, quantity_entry, barcode_entry>>
         ELSE IF item = None
         THEN /\ event' = Raised("toggle_purchase", "AttributeError")
              /\ UNCHANGED <<storeVars, show_all_items, listbox, selection,
                             description_entry, quantity_entry, barcode_entry>>
         ELSE LET kwargs == [to_purchase |-> ~Truthy(item[1].to_purchase)]
                  r == ShoppingList_update_item(DB, parsed.val, kwargs)
              IN /\ items' = r.db.items
                 /\ sqlite_sequence' = r.db.seq
                 /\ held' = held \cup Ids(r.db.items)
                 /\ call' = [op |-> "update_item", item |-> NoItem, item_id |-> parsed.val,
                             kwargs |-> kwargs, exc |-> r.exc, ret |-> 0]
                 /\ listbox' = update_list(show_all_items, r.db.items, listbox)
                 /\ selection' = 0
                 /\ event' = Shown("toggle_purchase")
                 /\ UNCHANGED <<show_all_items, description_entry, quantity_entry,
                                barcode_entry>>

NextGUI ==
    \/ show_to_purchase_view
    \/ show_all_items_view
    \/ EditEntries
    \/ SelectRow
    \/ GUI_add_item
    \/ GUI_delete_item
    \/ GUI_toggle_purchase

SpecGUI == InitGUI /\ [][NextGUI]_vars

(***************************************************************************)
(* Properties                                                              *)
(***************************************************************************)
Current == listbox[CurrentFrame(show_all_items)]

\* C1: the row update_list renders for a persisted item parses back, by the
\* expression delete_item and toggle_purchase use, to exactly that item's id.
C1_RowIdRoundTrip ==
    \A k \in 1..Len(Current) :
        LET parsed == ParseRowId(Current[k])
        IN parsed.ok /\ parsed.val = FetchItems(show_all_items, items)[k].id

\* C2: add_item with a non-empty barcode that a persisted row already carries
\* raises the constraint violation and leaves table and sequence as they were.
C2_DuplicateBarcodeRejected ==
    [][(/\ call'.op = "add_item"
        /\ call'.item.barcode # None
        /\ call'.item.barcode # Some("")
        /\ \E k \in 1..Len(items) : items[k].barcode = call'.item.barcode)
       => (/\ call'.exc = "IntegrityError"
           /\ items' = items
           /\ sqlite_sequence' = sqlite_sequence)]_vars

C2_Witness ==
    /\ call.op = "add_item"
    /\ call.exc = "IntegrityError"
    /\ \E k \in 1..Len(items) : items[k].barcode = call.item.barcode

\* C3: update_item on an id the table does not hold ends in an error the caller
\* sees, never in a silent return, and the table is unchanged.
C3_UpdateMissingIdReported ==
    [][(call'.op = "update_item" /\ call'.item_id \notin Ids(items))
       => (call'.exc # "none" /\ items' = items)]_vars

\* C4: get_items_to_purchase returns exactly the rows of get_all_items whose
\* to_purchase is true, and an update that flips one row's flag changes that
\* value only: the row's other columns and every other row stay as they were.
C4_ToPurchaseSubsetAndToggleFrame ==
    /\ [](get_items_to_purchase(items)
            = SelectSeq(get_all_items(items), LAMBDA r : r.to_purchase # 0))
    /\ [][(/\ call'.op = "update_item"
           /\ DOMAIN call'.kwargs = {"to_purchase"}
           /\ call'.item_id \in Ids(items)
           /\ call'.kwargs.to_purchase
                = (get_item_by_id(items, call'.item_id)[1].to_purchase = 0))
          => (/\ call'.exc = "none"
              /\ Len(items') = Len(items)
              /\ \A k \in 1..Len(items) :
                    IF items[k].id = call'.item_id
                    THEN items'[k] = [items[k] EXCEPT
                                        !.to_purchase = 1 - items[k].to_purchase]
                    ELSE items'[k] = items[k])]_vars

C4_Witness ==
    /\ call.op = "update_item"
    /\ DOMAIN call.kwargs = {"to_purchase"}
    /\ call.kwargs.to_purchase = FALSE
    /\ \E k \in 1..Len(items) : items[k].id = call.item_id /\ items[k].to_purchase = 0
    /\ \E k \in 1..Len(items) : items[k].id # call.item_id /\ items[k].to_purchase = 1
    /\ Len(get_items_to_purchase(items)) < Len(get_all_items(items))

\* C5: after delete_item(id) the id is absent from get_item_by_id, get_all_items
\* and get_items_to_purchase, every other row is unchanged, and deleting an id
\* the table does not hold raises nothing and changes nothing.
C5_DeleteRemovesOnlyThatRow ==
    [][(call'.op = "delete_item")
       => (/\ call'.exc = "none"
           /\ get_item_by_id(items', call'.item_id) = None
           /\ call'.item_id \notin Ids(get_all_items(items'))
           /\ call'.item_id \notin Ids(get_items_to_purchase(items'))
           /\ Range(items') = {r \in Range(items) : r.id # call'.item_id}
           /\ (call'.item_id \notin Ids(items) => items' = items))]_vars

C5_Witness ==
    /\ call.op = "delete_item"
    /\ call.item_id \in held
    /\ call.item_id \notin Ids(items)
    /\ items # <<>>

\* the changes a rejected action must not make
Rejected ==
    /\ event'.messagebox # "none"
    /\ event'.exc = "none"
    /\ items' = items
    /\ sqlite_sequence' = sqlite_sequence
    /\ show_all_items' = show_all_items
    /\ listbox' = listbox

\* C6: add_item with an empty description or a quantity that is no integer, and
\* delete_item or toggle_purchase with no row selected, show an error box and
\* change neither the table nor the view.
C6_ValidationErrorChangesNothing ==
    [][/\ (/\ event'.op = "add_item"
           /\ (description_entry = <<>> \/ ~PyInt(quantity_entry).ok))
          => Rejected
       /\ (event'.op \in {"delete_item", "toggle_purchase"} /\ selection = 0)
          => Rejected]_vars

C6_Witness ==
    /\ event.op = "add_item"
    /\ event.messagebox # "none"
    /\ description_entry = <<>>
    /\ quantity_entry # <<>>
    /\ items # <<>>

\* C7: ids are unique, an id handed out by add_item was never carried by any
\* row before, and no update changes the id of a row.
C7_IdsNeverReusedImmutable ==
    [][/\ Cardinality(Ids(items')) = Len(items')
       /\ (call'.op = "add_item" /\ call'.exc = "none")
          => (call'.ret \notin held /\ Ids(items') = Ids(items) \cup {call'.ret})
       /\ (call'.op = "update_item") => Ids(items') = Ids(items)]_vars

\* the id of the item behind the selected row
Target == FetchItems(show_all_items, items)[selection].id

\* C8: an item added through the form is in the to-purchase view; toggling its
\* selected row takes it out of that view and leaves it in the all-items view
\* with status "Not to Purchase"; deleting its selected row removes it from both.
C8_PresenterLifecycle ==
    [][/\ (event' = Shown("add_item"))
          => call'.ret \in Ids(get_items_to_purchase(items'))
       /\ (/\ event'.op = "toggle_purchase"
           /\ selection # 0
           /\ Target \in Ids(get_items_to_purchase(items)))
          => (/\ Target \notin Ids(get_items_to_purchase(items'))
              /\ \E k \in 1..Len(items') :
                    /\ items'[k].id = Target
                    /\ StatusText(items'[k]) = NotToPurchaseText)
       /\ (event'.op = "delete_item" /\ selection # 0)
          => Target \notin Ids(get_all_items(items'))]_vars

\* C9: when the form passes validation and add_item of the store raises the
\* constraint violation, the callback shows an error box and no exception
\* leaves it.
C9_ConstraintViolationCaught ==
    [][(/\ event'.op = "add_item"
        /\ description_entry # <<>>
        /\ PyInt(quantity_entry).ok
        /\ barcode_entry # ""
        /\ \E k \in 1..Len(items) : items[k].barcode = Some(barcode_entry))
       => (event'.exc = "none" /\ event'.messagebox # "none")]_vars

\* C10: the presenter starts in the to-purchase view, each view switch makes
\* the requested view the one on screen, and after every callback the listbox
\* on screen holds exactly the rows of the items the store returns for that
\* view: get_items_to_purchase in the to-purchase view, get_all_items otherwise.
C10_ActiveViewShowsStore ==
    /\ event.op \in {"create_widgets", "show_to_purchase_view"} => ~show_all_items
    /\ event.op = "show_all_items_view" => show_all_items
    /\ LET its == IF show_all_items THEN get_all_items(items)
                  ELSE get_items_to_purchase(items)
       IN /\ Len(Current) = Len(its)
          /\ \A k \in 1..Len(its) : Current[k] = RenderRow(its[k])

C10_Witness ==
    /\ event.op = "show_to_purchase_view"
    /\ Len(listbox["to_purchase_frame"]) >= 1
    /\ Len(listbox["to_purchase_frame"]) < Len(items)
    /\ Len(listbox["all_items_frame"]) = Len(items)

====
